---- MODULE Spec2Model ----
(***************************************************************************)
(* TimeUse (src/main.py): a once-per-second sampler of the foreground      *)
(* window that accrues time per (application, title) into a TimeRecord,    *)
(* saves it to record.xml every ten seconds and on exit, and shows it in   *)
(* a sortable table.                                                        *)
(*                                                                         *)
(* Strings are sequences of one-character strings, so that comparison,     *)
(* concatenation and slicing are computed as Python computes them.         *)
(* A TimeRecord (a dict of dicts, insertion ordered) is a sequence of       *)
(* [app, titles] records, titles being a sequence of [title, time]          *)
(* records; time is a timedelta in whole seconds.                          *)
(***************************************************************************)
EXTENDS Integers, Sequences, FiniteSets, TLC

(* ------------------------------ bounds --------------------------------- *)
\* ticks the 1-second interval emits in a run
MaxSampleTicks == 2
\* ticks the 10-second interval of the saving subscription emits in a run
MaxSaveTicks == 1

\* presses of one sort key in a row that the history tells apart
MaxStreak == 3

(* ------------------------------ strings -------------------------------- *)
\* the characters of the model, in code point order
Alphabet == <<".", "/", "0", "1", "2", "3", "4", "5", "6", "7", "8", "9",
              ":", "_", "a", "b", "t", "x">>

Code(c) == CHOOSE i \in 1..Len(Alphabet) : Alphabet[i] = c

Min2(a, b) == IF a < b THEN a ELSE b

\* Python's str < str: lexicographic by code point, a proper prefix is smaller
StrLess(s, t) ==
    \/ \E k \in 1..Min2(Len(s), Len(t)) :
          /\ \A j \in 1..(k - 1) : s[j] = t[j]
          /\ Code(s[k]) < Code(t[k])
    \/ /\ Len(s) < Len(t)
       /\ \A j \in 1..Len(s) : s[j] = t[j]

Digits == <<"0", "1", "2", "3", "4", "5", "6", "7", "8", "9">>

IsDigit(c) == \E i \in 1..10 : Digits[i] = c

DigitVal(c) == (CHOOSE i \in 1..10 : Digits[i] = c) - 1

RECURSIVE IntStr(_)
IntStr(n) == IF n < 10 THEN <<Digits[n + 1]>>
             ELSE IntStr(n \div 10) \o <<Digits[(n % 10) + 1]>>

\* str(time.total_seconds()): the repr of a float holding whole seconds
StrOfSeconds(secs) == IntStr(secs) \o <<".", "0">>

RECURSIVE DigitsVal(_)
DigitsVal(s) == IF s = << >> THEN 0
                ELSE 10 * DigitsVal(SubSeq(s, 1, Len(s) - 1)) + DigitVal(s[Len(s)])

\* float(text) for the texts of the model: digits, then optionally a point
\* and zeros. -1 stands for the ValueError float() raises on anything else.
ParseFloat(s) ==
    LET dots == {i \in 1..Len(s) : s[i] = "."}
        cut  == IF dots = {} THEN Len(s) + 1 ELSE CHOOSE i \in dots : \A j \in dots : i <= j
        ip   == SubSeq(s, 1, cut - 1)
        fp   == SubSeq(s, cut + 1, Len(s))
    IN  IF /\ Cardinality(dots) <= 1
           /\ Len(ip) > 0
           /\ \A i \in 1..Len(ip) : IsDigit(ip[i])
           /\ \A i \in 1..Len(fp) : fp[i] = "0"
        THEN DigitsVal(ip)
        ELSE -1

(* ------------------------------ TimeRecord ----------------------------- *)
\* timedelta(seconds=1), the interval every sample accrues
TickSeconds == 1

AppIndex(rec, app) ==
    IF \E i \in 1..Len(rec) : rec[i].app = app
    THEN CHOOSE i \in 1..Len(rec) : rec[i].app = app
    ELSE 0

TitleIndex(titles, title) ==
    IF \E i \in 1..Len(titles) : titles[i].title = title
    THEN CHOOSE i \in 1..Len(titles) : titles[i].title = title
    ELSE 0

\* self[application] = self.get(application, {})
EnsureApp(rec, app) ==
    IF AppIndex(rec, app) = 0 THEN Append(rec, [app |-> app, titles |-> << >>]) ELSE rec

\* d[title] = time on an insertion-ordered dict
PutTitle(titles, title, time) ==
    IF TitleIndex(titles, title) = 0
    THEN Append(titles, [title |-> title, time |-> time])
    ELSE [titles EXCEPT ![TitleIndex(titles, title)].time = time]

\* self[application].get(title, timedelta) + timedelta: the default handed
\* to get() is the parameter timedelta, the interval itself
\* a slip: the time already recorded is dropped
AccruedReset(titles, title, delta) == delta

AccruedTime(titles, title, delta) ==
    (IF TitleIndex(titles, title) = 0 THEN delta
     ELSE titles[TitleIndex(titles, title)].time) + delta

\* self[application][title] = ... ; the application is present (EnsureApp ran)
AddTitleTime(rec, app, title, delta) ==
    LET i == AppIndex(rec, app)
    IN  [rec EXCEPT ![i].titles = PutTitle(rec[i].titles, title,
                                           AccruedTime(rec[i].titles, title, delta))]

add_timedelta(rec, app, title, delta) ==
    AddTitleTime(EnsureApp(rec, app), app, title, delta)

\* the value a TimeRecord holds for (app, title); -1 when the key is absent
TimeOf(rec, app, title) ==
    IF AppIndex(rec, app) = 0 THEN -1
    ELSE IF TitleIndex(rec[AppIndex(rec, app)].titles, title) = 0 THEN -1
    ELSE rec[AppIndex(rec, app)].titles[TitleIndex(rec[AppIndex(rec, app)].titles, title)].time

\* the applications (outer keys) of a TimeRecord
AppsOf(rec) == {rec[i].app : i \in 1..Len(rec)}

\* the (app, title, time) items of a TimeRecord
ItemsOf(rec) ==
    UNION {{<<rec[i].app, rec[i].titles[j].title, rec[i].titles[j].time>> :
                j \in 1..Len(rec[i].titles)} : i \in 1..Len(rec)}

\* dict equality: the same keys at both levels with the same values
SameRecord(r1, r2) == AppsOf(r1) = AppsOf(r2) /\ ItemsOf(r1) = ItemsOf(r2)

(* ------------------------------ record.xml ----------------------------- *)
\* The backing store is [kind, root, apps]: kind "absent" (no file), "empty"
\* (a file of zero bytes) or "xml", a document with the root's tag and its
\* Application children in document order, each [name, titles], each Title
\* [name, text]. NoAttr is the name of an element without the name
\* attribute, NoText the text of an element without text. Pretty-printing
\* changes none of these.
NoAttr == <<"NoAttr">>
NoText == <<"NoText">>

Absent == [kind |-> "absent", root |-> "", apps |-> << >>]
EmptyFile == [kind |-> "empty", root |-> "", apps |-> << >>]
Xml(root, apps) == [kind |-> "xml", root |-> root, apps |-> apps]

\* a slip: str(time), the "0:00:SS" of a timedelta below one minute
StrOfTimedelta(secs) ==
    <<"0", ":", "0", "0", ":">> \o (IF secs < 10 THEN <<"0">> ELSE << >>) \o IntStr(secs)

\* title_element.text = str(time.total_seconds())
TitleText(time) == StrOfSeconds(time)

TitleElement(t) == [name |-> t.title, text |-> TitleText(t.time)]

AppElement(a) ==
    [name |-> a.app, titles |-> [j \in 1..Len(a.titles) |-> TitleElement(a.titles[j])]]

to_xml(rec) == Xml("TimeRecord", [i \in 1..Len(rec) |-> AppElement(rec[i])])

Ok(v) == [ok |-> TRUE, err |-> "", val |-> v]
Raise(e) == [ok |-> FALSE, err |-> e, val |-> << >>]

\* the inner loop of from_xml over one Application's Title elements
RECURSIVE ParseTitles(_, _)
ParseTitles(els, acc) ==
    IF els = << >> THEN Ok(acc)
    ELSE LET e == Head(els)
         IN  IF e.name = NoAttr THEN Raise("KeyError")
             ELSE IF e.text = NoText THEN Raise("TypeError")
             ELSE IF ParseFloat(e.text) < 0 THEN Raise("ValueError")
             ELSE ParseTitles(Tail(els), PutTitle(acc, e.name, ParseFloat(e.text)))

\* record[application] = {} and the titles put into it: a repeated
\* Application replaces the earlier one
PutApp(rec, app, titles) ==
    IF AppIndex(rec, app) = 0 THEN Append(rec, [app |-> app, titles |-> titles])
    ELSE [rec EXCEPT ![AppIndex(rec, app)].titles = titles]

\* the outer loop of from_xml over root.findall("Application")
RECURSIVE ParseApps(_, _)
ParseApps(els, acc) ==
    IF els = << >> THEN Ok(acc)
    ELSE LET e == Head(els)
         IN  IF e.name = NoAttr THEN Raise("KeyError")
             ELSE LET ts == ParseTitles(e.titles, << >>)
                  IN  IF ~ts.ok THEN ts
                      ELSE ParseApps(Tail(els), PutApp(acc, e.name, ts.val))

\* from_xml never looks at the root's tag; a text that is no XML at all
\* makes ET.fromstring raise ParseError
from_xml(doc) ==
    IF doc.kind # "xml" THEN Raise("ParseError") ELSE ParseApps(doc.apps, << >>)

\* a slip: FileNotFoundError is not caught
LoadNoCatch(f) == from_xml(f)

\* load_record: FileNotFoundError gives an empty TimeRecord
load_record(f) == IF f.kind = "absent" THEN Ok(<< >>) ELSE from_xml(f)

(* ------------------------------ refresh_table -------------------------- *)
\* sort_by_process_up and sort_by_time_up hold True, False or None
None == "None"
True == "True"
False == "False"

Not(b) == IF b = True THEN False ELSE True

\* sorted(s, key, reverse): stable, also when reversed. prec holds the
\* pairs <<i, j>> of positions such that the key of s[i] sorts strictly
\* before the key of s[j].
StableSort(s, prec) ==
    LET n == Len(s)
        rank(i) == Cardinality({j \in 1..n :
                        <<j, i>> \in prec \/ (<<i, j>> \notin prec /\ j < i)})
    IN  [k \in 1..n |-> s[CHOOSE i \in 1..n : rank(i) = k - 1]]

Pairs(s) == (1..Len(s)) \X (1..Len(s))

StrPrec(reverse, a, b) == IF reverse = True THEN StrLess(b, a) ELSE StrLess(a, b)
TimePrec(reverse, a, b) == IF reverse = True THEN b < a ELSE a < b

\* sum(titles.values(), timedelta())
RECURSIVE SumTimes(_)
SumTimes(titles) ==
    IF titles = << >> THEN 0 ELSE Head(titles).time + SumTimes(Tail(titles))

\* line 146: sorted(data, key=lambda x: x[0], reverse=self.sort_by_process_up)
AppsByName(d, up) ==
    StableSort(d, {q \in Pairs(d) : StrPrec(up, d[q[1]].app, d[q[2]].app)})

\* line 148: sorted(data, key=lambda x: sum(x[1].values(), timedelta()), reverse=...)
AppsByTime(d, up) ==
    StableSort(d, {q \in Pairs(d) :
                      TimePrec(up, SumTimes(d[q[1]].titles), SumTimes(d[q[2]].titles))})

\* lines 144-148: the applications in the order they are shown
SortedApps(rec, pUp, tUp) ==
    LET d1 == IF pUp # None THEN AppsByName(rec, pUp) ELSE rec
    IN  IF tUp # None THEN AppsByTime(d1, tUp) ELSE d1

\* line 158: sorted(td, key=lambda x: x[0], reverse=self.sort_by_process_up)
TitlesByName(d, up) ==
    StableSort(d, {q \in Pairs(d) : StrPrec(up, d[q[1]].title, d[q[2]].title)})

\* a slip: the titles are left in the order of the dictionary
TitlesUnsorted(d, up) == d

\* line 160: sorted(td, key=lambda x: x[1], reverse=self.sort_by_time_up)
TitlesByTime(d, up) ==
    StableSort(d, {q \in Pairs(d) : TimePrec(up, d[q[1]].time, d[q[2]].time)})

\* lines 156-160: the titles of one application in the order they are shown
SortedTitles(titles, pUp, tUp) ==
    LET d1 == IF pUp # None THEN TitlesByName(titles, pUp) ELSE titles
    IN  IF tUp # None THEN TitlesByTime(d1, tUp) ELSE d1

\* the truncation limit of truncate_string
TruncLen == 20

\* a slip: >= in place of >
TruncateFromLimit(s) ==
    IF Len(s) >= TruncLen THEN SubSeq(s, 1, TruncLen) \o <<".", ".", ".">> ELSE s

truncate_string(s) ==
    IF Len(s) > TruncLen THEN SubSeq(s, 1, TruncLen) \o <<".", ".", ".">> ELSE s

\* os.path.basename: what follows the last separator
Basename(p) ==
    LET seps == {i \in 1..Len(p) : p[i] = "/"}
    IN  IF seps = {} THEN p
        ELSE SubSeq(p, (CHOOSE i \in seps : \A j \in seps : j <= i) + 1, Len(p))

NoKey == <<"NoKey">>

HeaderRow(a) ==
    [kind |-> "app", key |-> a.app, app |-> Basename(a.app), title |-> << >>,
     time |-> SumTimes(a.titles)]

TitleRow(a, t) ==
    [kind |-> "title", key |-> a.app \o <<"_">> \o t.title, app |-> << >>,
     title |-> truncate_string(t.title), time |-> t.time]

BlankRow == [kind |-> "blank", key |-> NoKey, app |-> << >>, title |-> << >>, time |-> 0]

\* lines 150-166: the rows of one application
AppRows(a, pUp, tUp) ==
    LET td == SortedTitles(a.titles, pUp, tUp)
    IN  <<HeaderRow(a)>> \o [j \in 1..Len(td) |-> TitleRow(a, td[j])] \o <<BlankRow>>

RECURSIVE ConcatRows(_, _, _)
ConcatRows(apps, pUp, tUp) ==
    IF apps = << >> THEN << >>
    ELSE AppRows(Head(apps), pUp, tUp) \o ConcatRows(Tail(apps), pUp, tUp)

\* the rows refresh_table puts into the DataTable
refresh_table(rec, pUp, tUp) == ConcatRows(SortedApps(rec, pUp, tUp), pUp, tUp)

(* ------------------------------ the program ---------------------------- *)
\* what get_active_window_info can report
PathA == <<"/", "a">>
PathB == <<"/", "b">>
Paths == {PathA, PathB}
Titles == {<< >>, <<"t">>}

\* the windows that get the focus in a run
WindowInfos == {[process_name |-> PathA, title |-> << >>],
                [process_name |-> PathA, title |-> <<"t">>],
                [process_name |-> PathB, title |-> <<"t">>]}

\* line 29: what it reports besides "error" when the query fails
ErrorInfo == [process_name |-> <<"unknown">>, title |-> <<"unknown">>]

\* a title of n characters
LongTitle(n) == [i \in 1..n |-> <<"a", "b", "t", "x">>[(i % 4) + 1]]

\* windows whose titles are shorter than, as long as and longer than the
\* truncation limit
LongInfos == {[process_name |-> PathA, title |-> LongTitle(n)] : n \in {0, 19, 20, 21, 25}}

\* windows whose paths and titles hold the "_" of the row keys
PathAB == <<"/", "a", "_", "b">>
UnderscoreInfos == {[process_name |-> PathA, title |-> <<"b">>],
                    [process_name |-> PathA, title |-> <<"b", "_", "t">>],
                    [process_name |-> PathAB, title |-> <<"t">>],
                    [process_name |-> PathAB, title |-> << >>]}

\* what record.xml can hold when the program starts
GoodDoc ==
    Xml("TimeRecord",
        << [name |-> PathA, titles |-> << [name |-> << >>, text |-> <<"2", ".", "0">>],
                                          [name |-> <<"t">>, text |-> <<"4">>] >>],
           [name |-> PathB, titles |-> << [name |-> <<"t">>, text |-> <<"3", ".", "0">>] >>] >>)

OtherRootDoc ==
    Xml("Other", << [name |-> PathA, titles |-> << [name |-> <<"t">>, text |-> <<"2", ".", "0">>] >>] >>)

NoAppNameDoc ==
    Xml("TimeRecord", << [name |-> NoAttr, titles |-> << [name |-> <<"t">>, text |-> <<"2", ".", "0">>] >>] >>)

NoTitleNameDoc ==
    Xml("TimeRecord", << [name |-> PathA, titles |-> << [name |-> NoAttr, text |-> <<"2", ".", "0">>] >>] >>)

BadTextDoc ==
    Xml("TimeRecord", << [name |-> PathA, titles |-> << [name |-> <<"t">>, text |-> <<"x">>] >>] >>)

NoTextDoc ==
    Xml("TimeRecord", << [name |-> PathA, titles |-> << [name |-> <<"t">>, text |-> NoText] >>] >>)

\* every kind of file the program can find
AllFiles == {Absent, EmptyFile, GoodDoc, OtherRootDoc, NoAppNameDoc, NoTitleNameDoc,
             BadTextDoc, NoTextDoc}

\* a first run and a later run
GoodFiles == {Absent, GoodDoc}

VARIABLES
    appState,            \* "constructed", "running", "exiting", "exited", "failed", "killed"
    paused,              \* TimeUseApp.paused
    sort_by_process_up,  \* True, False or None
    sort_by_time_up,     \* True, False or None
    record,              \* TimeUseApp.record
    file,                \* record.xml
    table,               \* the rows of the DataTable
    timer,               \* the subscription of line 120 to self.timer
    saver,               \* the subscription of line 122 to self.saver_timer
    exitSave,            \* the save_record call of _on_exit_app
    hist                 \* history: what has happened so far in the run

vars == <<appState, paused, sort_by_process_up, sort_by_time_up, record, file, table,
          timer, saver, exitSave, hist>>

Keys == Paths \X Titles

\* the keys of the runs with long titles and with "_" in path or title
WideKeys == Keys \cup {<<i.process_name, i.title>> : i \in LongInfos \cup UnderscoreInfos}

\* the refreshing subscriptions, by the line that subscribes
RefreshSubs == {123, 125}

\* a subscription before its first tick
NoTimer == [fired |-> 0, queue |-> 0, pc |-> "idle", info |-> ErrorInfo]
NoSaver == [fired |-> 0, queue |-> 0, pc |-> "idle", alive |-> TRUE]

\* the history of a run that starts with record.xml holding f
NoHist(f) ==
    [file0 |-> f,            \* record.xml at the start
     loaded |-> << >>,       \* what load_record returned
     firedRunning |-> 0,     \* sample ticks emitted while not paused
     saveFiredRunning |-> 0, \* save ticks emitted while not paused
     dropped |-> 0,          \* sample ticks the pause filter dropped
     accruals |-> [k \in Keys |-> 0], \* add_timedelta calls per key
     saves |-> 0,            \* periodic saves that wrote the file
     refreshes |-> [sub \in RefreshSubs |-> 0], \* ticks the refreshing subscriptions handled
     key |-> "",             \* the sort key pressed last, "p" or "t"
     streak |-> 0]           \* how often in a row it was pressed, up to MaxStreak

\* the state after TimeUseApp() with record.xml holding f
Fresh ==
    /\ appState = "constructed"
    /\ paused = FALSE
    /\ sort_by_process_up = True
    /\ sort_by_time_up = None
    /\ record = << >>
    /\ table = << >>
    /\ timer = NoTimer
    /\ saver = NoSaver
    /\ exitSave = "idle"

Constructed(f) == Fresh /\ file = f /\ hist = NoHist(f)

Init == \E f \in GoodFiles : Constructed(f)

\* the threads of the pool deliver ticks while the process lives
Live == appState \in {"running", "exiting"}

\* on_mount: load record.xml, subscribe, refresh the table
on_mount ==
    /\ appState = "constructed"
    /\ LET r == load_record(file)
       IN  IF r.ok
           THEN /\ record' = r.val
                /\ table' = refresh_table(r.val, sort_by_process_up, sort_by_time_up)
                /\ appState' = "running"
                /\ hist' = [hist EXCEPT !.loaded = r.val]
           ELSE /\ appState' = "failed"
                /\ UNCHANGED <<record, table, hist>>
    /\ UNCHANGED <<paused, sort_by_process_up, sort_by_time_up, file, timer, saver, exitSave>>

(* ---- the sampling subscription: interval(1.0), observe_on, filter, map, filter *)
\* a slip: a filter that lets every tick pass
AlwaysPass(p) == TRUE

\* ops.filter(lambda _: not self.paused)
NotPaused(p) == ~p

\* reactivex.interval(1.0) emits; observe_on queues the tick for the pool
timer_tick ==
    /\ Live
    /\ timer.fired < MaxSampleTicks
    /\ timer' = [timer EXCEPT !.fired = @ + 1, !.queue = @ + 1]
    /\ hist' = [hist EXCEPT !.firedRunning = IF paused THEN @ ELSE @ + 1]
    /\ UNCHANGED <<appState, paused, sort_by_process_up, sort_by_time_up, record, file,
                   table, saver, exitSave>>

\* a slip: a filter that lets the failed sample pass
PassAll(info) == TRUE

\* ops.filter(lambda info: "error" not in info)
NoError(info) == info # ErrorInfo

\* a pool thread takes the tick: the pause filter, get_active_window_info
\* (one of infos, or the failure), the error filter
Deliver(infos) ==
    /\ Live
    /\ timer.pc = "idle"
    /\ timer.queue > 0
    /\ IF NotPaused(paused)
       THEN /\ \E info \in infos \cup {ErrorInfo} :
                  IF NoError(info)
                  THEN timer' = [timer EXCEPT !.queue = @ - 1, !.pc = "add_app", !.info = info]
                  ELSE timer' = [timer EXCEPT !.queue = @ - 1]
            /\ hist' = hist
       ELSE /\ timer' = [timer EXCEPT !.queue = @ - 1]
            /\ hist' = [hist EXCEPT !.dropped = @ + 1]
    /\ UNCHANGED <<appState, paused, sort_by_process_up, sort_by_time_up, record, file,
                   table, saver, exitSave>>

timer_deliver == Deliver(WindowInfos)

\* add_timedelta, line 36
record_add_app ==
    /\ Live
    /\ timer.pc = "add_app"
    /\ record' = EnsureApp(record, timer.info.process_name)
    /\ timer' = [timer EXCEPT !.pc = "add_title"]
    /\ UNCHANGED <<appState, paused, sort_by_process_up, sort_by_time_up, file, table,
                   saver, exitSave, hist>>

\* add_timedelta, line 37
record_add_title ==
    /\ Live
    /\ timer.pc = "add_title"
    /\ record' = AddTitleTime(record, timer.info.process_name, timer.info.title, TickSeconds)
    /\ timer' = [timer EXCEPT !.pc = "idle", !.info = ErrorInfo]
    /\ hist' = [hist EXCEPT !.accruals[<<timer.info.process_name, timer.info.title>>] = @ + 1]
    /\ UNCHANGED <<appState, paused, sort_by_process_up, sort_by_time_up, file, table,
                   saver, exitSave>>

(* ---- the saving subscription: interval(10.0), observe_on, filter, save_record *)
saver_tick ==
    /\ Live
    /\ saver.alive
    /\ saver.fired < MaxSaveTicks
    /\ saver' = [saver EXCEPT !.fired = @ + 1, !.queue = @ + 1]
    /\ hist' = [hist EXCEPT !.saveFiredRunning = IF paused THEN @ ELSE @ + 1]
    /\ UNCHANGED <<appState, paused, sort_by_process_up, sort_by_time_up, record, file,
                   table, timer, exitSave>>

\* a pool thread takes the tick: the pause filter, then save_record is entered
saver_deliver ==
    /\ Live
    /\ saver.alive
    /\ saver.pc = "idle"
    /\ saver.queue > 0
    /\ IF NotPaused(paused)
       THEN saver' = [saver EXCEPT !.queue = @ - 1, !.pc = "open"]
       ELSE saver' = [saver EXCEPT !.queue = @ - 1]
    /\ hist' = hist
    /\ UNCHANGED <<appState, paused, sort_by_process_up, sort_by_time_up, record, file,
                   table, timer, exitSave>>

\* open("record.xml", "w") truncates the file
save_open ==
    /\ Live
    /\ saver.pc = "open"
    /\ file' = EmptyFile
    /\ saver' = [saver EXCEPT !.pc = "write"]
    /\ UNCHANGED <<appState, paused, sort_by_process_up, sort_by_time_up, record, table,
                   timer, exitSave, hist>>

\* f.write(record.to_xml()) and the close of the with block, or an OSError
\* from them: an exception in the subscriber disposes the subscription
save_write ==
    /\ Live
    /\ saver.pc = "write"
    /\ \/ /\ file' = to_xml(record)
          /\ saver' = [saver EXCEPT !.pc = "idle"]
          /\ hist' = [hist EXCEPT !.saves = @ + 1]
       \/ /\ saver' = [saver EXCEPT !.pc = "idle", !.alive = FALSE]
          /\ UNCHANGED <<file, hist>>
    /\ UNCHANGED <<appState, paused, sort_by_process_up, sort_by_time_up, record, table,
                   timer, exitSave>>

(* ---- the refreshing subscriptions of lines 123 and 125 *)
\* each has an interval(10.0) of its own; a tick of one of the two is
\* handled: it passes the pause filter and refresh_table runs, or is dropped
refresh_tick ==
    /\ Live
    /\ \E sub \in RefreshSubs :
          /\ hist.refreshes[sub] < MaxSaveTicks
          /\ hist' = [hist EXCEPT !.refreshes[sub] = @ + 1]
    /\ IF NotPaused(paused)
       THEN table' = refresh_table(record, sort_by_process_up, sort_by_time_up)
       ELSE table' = table
    /\ UNCHANGED <<appState, paused, sort_by_process_up, sort_by_time_up, record, file,
                   timer, saver, exitSave>>

(* ---- the key bindings, handled by the application's own thread *)
action_switch_paused ==
    /\ appState = "running"
    /\ paused' = ~paused
    /\ UNCHANGED <<appState, sort_by_process_up, sort_by_time_up, record, file, table,
                   timer, saver, exitSave, hist>>

\* lines 182-185 and 190-193: the direction of the axis whose key was pressed
\* a slip: the key cycles through True, False and None
PressedCycle(up) == IF up = None THEN True ELSE IF up = True THEN False ELSE None

Pressed(up) == IF up = None THEN True ELSE Not(up)

\* a slip: the other axis is left as it is
KeepOther(up) == up

\* lines 181 and 189: the other axis
Cleared(up) == None

\* presses of one sort key in a row, counted up to MaxStreak
Streak(h, k) == IF h.key = k THEN Min2(h.streak + 1, MaxStreak) ELSE 1

action_sort_by_process ==
    /\ appState = "running"
    /\ sort_by_time_up' = Cleared(sort_by_time_up)
    /\ sort_by_process_up' = Pressed(sort_by_process_up)
    /\ table' = refresh_table(record, sort_by_process_up', sort_by_time_up')
    /\ hist' = [hist EXCEPT !.key = "p", !.streak = Streak(hist, "p")]
    /\ UNCHANGED <<appState, paused, record, file, timer, saver, exitSave>>

action_sort_by_time ==
    /\ appState = "running"
    /\ sort_by_process_up' = Cleared(sort_by_process_up)
    /\ sort_by_time_up' = Pressed(sort_by_time_up)
    /\ table' = refresh_table(record, sort_by_process_up', sort_by_time_up')
    /\ hist' = [hist EXCEPT !.key = "t", !.streak = Streak(hist, "t")]
    /\ UNCHANGED <<appState, paused, record, file, timer, saver, exitSave>>

(* ---- exit: action_quit or the close of the window, then _on_exit_app *)
\* nothing disposes the subscriptions: the pool keeps delivering ticks
action_quit ==
    /\ appState = "running"
    /\ appState' = "exiting"
    /\ exitSave' = "open"
    /\ UNCHANGED <<paused, sort_by_process_up, sort_by_time_up, record, file, table,
                   timer, saver, hist>>

\* save_record of line 197: open("record.xml", "w")
exit_open ==
    /\ exitSave = "open"
    /\ file' = EmptyFile
    /\ exitSave' = "write"
    /\ UNCHANGED <<appState, paused, sort_by_process_up, sort_by_time_up, record, table,
                   timer, saver, hist>>

\* save_record of line 197: f.write(record.to_xml()) and the close
exit_write ==
    /\ exitSave = "write"
    /\ file' = to_xml(record)
    /\ exitSave' = "super"
    /\ UNCHANGED <<appState, paused, sort_by_process_up, sort_by_time_up, record, table,
                   timer, saver, hist>>

\* super()._on_exit_app(): the application stops and the process ends,
\* and its threads with it; record is the ledger as it was at that moment
exit_super ==
    /\ exitSave = "super"
    /\ exitSave' = "idle"
    /\ appState' = "exited"
    /\ timer' = NoTimer
    /\ saver' = NoSaver
    /\ UNCHANGED <<paused, sort_by_process_up, sort_by_time_up, record, file, table, hist>>

\* the process is terminated from outside: only record.xml is left
kill ==
    /\ Live
    /\ appState' = "killed"
    /\ paused' = FALSE
    /\ record' = << >>
    /\ timer' = NoTimer
    /\ saver' = NoSaver
    /\ exitSave' = "idle"
    /\ hist' = NoHist(hist.file0)
    /\ UNCHANGED <<sort_by_process_up, sort_by_time_up, file, table>>

\* the sampling subscription
Sampling == timer_tick \/ timer_deliver \/ record_add_app \/ record_add_title

\* the saving subscription
Saving == saver_tick \/ saver_deliver \/ save_open \/ save_write

\* the exit path
Exiting == action_quit \/ exit_open \/ exit_write \/ exit_super

\* sampling, saving, pausing and exiting: the ledger and the backing store
Next == on_mount \/ Sampling \/ Saving \/ action_switch_paused \/ Exiting \/ kill

Spec == Init /\ [][Next]_vars

\* sampling, sorting and refreshing: the ledger and the table
ViewNext ==
    \/ on_mount \/ Sampling \/ refresh_tick
    \/ action_sort_by_process \/ action_sort_by_time

ViewSpec == Init /\ [][ViewNext]_vars

\* the start on every kind of file, then sampling
LoadInit == \E f \in AllFiles : Constructed(f)

LoadNext == on_mount \/ Sampling \/ action_switch_paused

LoadSpec == LoadInit /\ [][LoadNext]_vars

\* a first run in which windows with long titles get the focus
FirstRun ==
    /\ Fresh
    /\ file = Absent
    /\ hist = [NoHist(Absent) EXCEPT !.accruals = [k \in WideKeys |-> 0]]

long_deliver == Deliver(LongInfos)

TruncNext ==
    on_mount \/ timer_tick \/ long_deliver \/ record_add_app \/ record_add_title
        \/ refresh_tick

TruncSpec == FirstRun /\ [][TruncNext]_vars

\* a first run in which windows with "_" in path or title get the focus
underscore_deliver == Deliver(UnderscoreInfos)

KeyNext ==
    on_mount \/ timer_tick \/ underscore_deliver \/ record_add_app \/ record_add_title
        \/ refresh_tick

KeySpec == FirstRun /\ [][KeyNext]_vars

\* saving, refreshing and pausing: the three subscriptions to saver_timer
TickNext == on_mount \/ Saving \/ refresh_tick \/ action_switch_paused

TickSpec == Init /\ [][TickNext]_vars

(* ------------------------------ the claims ----------------------------- *)
SumAccruals == hist.accruals[<<PathA, << >>>>] + hist.accruals[<<PathA, <<"t">>>>]
               + hist.accruals[<<PathB, << >>>>] + hist.accruals[<<PathB, <<"t">>>>]

\* C1: starting from an empty ledger, after N accruals that all went to the
\* same (path, title), the time recorded for it is N * TickSeconds; the
\* first accrual leaves it at TickSeconds.
C1_AccrualIsNTimesD ==
    (Live /\ hist.file0.kind = "absent") =>
        \A k \in Keys :
            (hist.accruals[k] > 0 /\ SumAccruals = hist.accruals[k]) =>
                TimeOf(record, k[1], k[2]) = hist.accruals[k] * TickSeconds

C3_NoCatchUp ==
    /\ SumAccruals + (IF timer.pc = "idle" THEN 0 ELSE 1) <= hist.firedRunning
    /\ hist.saves + (IF saver.pc = "idle" THEN 0 ELSE 1) <= hist.saveFiredRunning

\* C4: in every state, a process termination included, record.xml is a
\* complete document (or still absent), never an empty or partial file.
C4_SaveIsAtomic == file.kind \in {"absent", "xml"}

AccrualInProgress == timer.pc = "add_title"
SaveInProgress == saver.pc = "write" \/ exitSave = "write"

\* C5: an accrual and a serialization/write of the ledger are never in
\* progress at the same time, and neither is in progress when the pause
\* flag or the sort mode changes.
C5_NoOverlap ==
    /\ [](~(AccrualInProgress /\ SaveInProgress))
    /\ [][(appState' = appState /\
            (paused' # paused \/ sort_by_process_up' # sort_by_process_up
                \/ sort_by_time_up' # sort_by_time_up))
          => ~(AccrualInProgress \/ SaveInProgress)]_vars

\* C6: once the process has exited, record.xml holds the ledger as it was
\* when the process exited (nothing accrued and no periodic save wrote
\* after the final save began).
C6_FinalSaveIsLast == appState = "exited" => file = to_xml(record)

\* a document that breaks the schema in one of the listed ways
ViolatesSchema(doc) ==
    /\ doc.kind = "xml"
    /\ \/ doc.root # "TimeRecord"
       \/ \E i \in 1..Len(doc.apps) :
             \/ doc.apps[i].name = NoAttr
             \/ \E j \in 1..Len(doc.apps[i].titles) :
                   \/ doc.apps[i].titles[j].name = NoAttr
                   \/ doc.apps[i].titles[j].text = NoText
                   \/ ParseFloat(doc.apps[i].titles[j].text) < 0

\* C7: the start on a record.xml that breaks the schema (a root that is not
\* TimeRecord, an element without name, a Title whose text is no number)
\* fails instead of giving a ledger.
C7_MalformedIsRejected ==
    (appState # "constructed" /\ ViolatesSchema(hist.file0)) => appState = "failed"

\* C8: every ledger that accruals reach comes back from
\* from_xml(to_xml(...)) with the same paths, titles and durations.
C8_RoundTrip ==
    appState = "running" =>
        /\ from_xml(to_xml(record)).ok
        /\ SameRecord(from_xml(to_xml(record)).val, record)

\* C8, its case: a ledger built by accruals alone, with two paths and the
\* empty title, that comes back the same.
C8_Witness ==
    /\ appState = "running" /\ hist.file0.kind = "absent"
    /\ TimeOf(record, PathA, << >>) > 0
    /\ TimeOf(record, PathB, <<"t">>) > 0
    /\ SameRecord(from_xml(to_xml(record)).val, record)

\* a step in which the sort key k was pressed
Press(k) ==
    /\ hist'.key = k
    /\ <<sort_by_process_up', sort_by_time_up'>> # <<sort_by_process_up, sort_by_time_up>>

\* C9: at most one sort axis is active; sort-by-name clears the time sort,
\* sort-by-time clears the name sort, and the key of the active axis flips
\* its direction and leaves it active.
C9_SortExclusive ==
    /\ [](sort_by_process_up = None \/ sort_by_time_up = None)
    /\ [][/\ Press("p") =>
                /\ sort_by_time_up' = None
                /\ sort_by_process_up' \in {True, False}
                /\ sort_by_process_up # None => sort_by_process_up' # sort_by_process_up
          /\ Press("t") =>
                /\ sort_by_process_up' = None
                /\ sort_by_time_up' \in {True, False}
                /\ sort_by_time_up # None => sort_by_time_up' # sort_by_time_up]_vars

\* C9, its case: the time key was pressed three times in a row and the
\* time axis is still the active one.
C9_Witness ==
    /\ hist.key = "t" /\ hist.streak >= 3
    /\ sort_by_time_up # None /\ sort_by_process_up = None

\* C10: before any sort command the header rows are shown in ascending
\* order of path and the title rows of an application in ascending order
\* of title.
C10_StartupAscending ==
    (appState = "running" /\ hist.key = "") =>
        /\ \A i, j \in 1..Len(table) :
              (i < j /\ table[i].kind = "app" /\ table[j].kind = "app") =>
                  ~StrLess(table[j].key, table[i].key)
        /\ \A i \in 1..(Len(table) - 1) :
              (table[i].kind = "title" /\ table[i + 1].kind = "title") =>
                  ~StrLess(table[i + 1].title, table[i].title)

\* C11: the start without record.xml raises nothing and gives an empty
\* ledger: until the first accrual no application is recorded.
C11_AbsentLoadsEmpty ==
    (hist.file0.kind = "absent" /\ appState # "constructed") =>
        /\ appState = "running"
        /\ hist.loaded = << >>
        /\ (SumAccruals = 0 /\ timer.pc \in {"idle", "add_app"}) => record = << >>

\* C11, its case: the program runs after a start without record.xml and
\* its ledger is empty.
C11_Witness ==
    /\ appState = "running" /\ hist.file0.kind = "absent"
    /\ record = << >> /\ table = << >>

\* the titles of the ledger whose row has the key k
TitlesOfKey(k) ==
    {it[2] : it \in {x \in ItemsOf(record) : x[1] \o <<"_">> \o x[2] = k}}

\* C12: a title row shows the title itself when it has 20 characters or
\* fewer, and else its first 20 characters and then "...".
C12_Truncation ==
    \A i \in 1..Len(table) :
        table[i].kind = "title" =>
            \E t \in TitlesOfKey(table[i].key) :
                table[i].title = IF Len(t) <= 20 THEN t
                                 ELSE SubSeq(t, 1, 20) \o <<".", ".", ".">>

\* C12, its case: the table shows a title of 20 characters in full and one
\* of more than 20 characters cut.
C12_Witness ==
    /\ \E i \in 1..Len(table) : table[i].kind = "title" /\ table[i].title = LongTitle(20)
    /\ \E i \in 1..Len(table) :
          /\ table[i].kind = "title"
          /\ Len(table[i].title) = 23
          /\ \E n \in {21, 25} : table[i].key = PathA \o <<"_">> \o LongTitle(n)

\* C13: the step that completes a sample tick's accrual also refreshes the
\* view: after it the rows are those of the ledger with that accrual.
C13_SampleTickRefreshes ==
    [][hist'.accruals # hist.accruals =>
          table' = refresh_table(record', sort_by_process_up', sort_by_time_up')]_vars

\* the save ticks the saving subscription has finished with
SaveTicksDone == saver.fired - saver.queue - (IF saver.pc = "idle" THEN 0 ELSE 1)

\* C14: a refreshing subscription handles its n-th tick, while not paused,
\* only after the saving subscription has finished with its n-th tick.
C14_PersistThenRefresh ==
    [][\A sub \in RefreshSubs :
          (~paused /\ hist'.refreshes[sub] = hist.refreshes[sub] + 1) =>
              SaveTicksDone >= hist'.refreshes[sub]]_vars

\* the sample ticks that passed the pause filter and whose window query failed
Failed ==
    timer.fired - timer.queue - (IF timer.pc = "idle" THEN 0 ELSE 1)
        - SumAccruals - hist.dropped

\* C15: the ledger never holds the application "unknown"; the step that
\* handles a tick whose window query failed leaves the ledger as it was;
\* and after a failure the next queued tick can still be delivered.
C15_FailedSampleIsSkipped ==
    /\ [](AppIndex(record, ErrorInfo.process_name) = 0)
    /\ []((appState = "running" /\ Failed >= 1 /\ timer.queue > 0 /\ timer.pc = "idle")
              => ENABLED timer_deliver)
    /\ [][(~paused /\ timer'.queue = timer.queue - 1 /\ timer'.pc = "idle") =>
              (record' = record /\ hist'.accruals = hist.accruals)]_vars

\* C15, its case: a window query has failed and a later tick is being
\* accrued.
C15_Witness == Failed >= 1 /\ timer.pc = "add_title" /\ ~paused

\* C16: a write that fails in a periodic save does not end the saving
\* subscription: later save ticks are still handled.
C16_FailedSaveIsContained == Live => saver.alive

\* the (path, title) keys of a TimeRecord
KeysOf(rec) == {<<it[1], it[2]>> : it \in ItemsOf(rec)}

\* C17: after the load no application and no (path, title) key leaves the
\* ledger, no duration decreases, an application appears only in the first
\* statement of add_timedelta and a key only in an accrual to that key.
C17_LedgerOnlyGrows ==
    [][(record' # record /\ Live /\ appState' # "killed") =>
          LET old == KeysOf(record)
              new == KeysOf(record')
          IN  /\ AppsOf(record) \subseteq AppsOf(record')
              /\ old \subseteq new
              /\ \A k \in old :
                    TimeOf(record', k[1], k[2]) >= TimeOf(record, k[1], k[2])
              /\ \A a \in AppsOf(record') \ AppsOf(record) :
                    timer.pc = "add_app" /\ timer.info.process_name = a
              /\ \A k \in new \ old :
                    hist'.accruals[k] = hist.accruals[k] + 1]_vars

\* C17, its case: two accruals went to one key after the load and its
\* duration has grown with each.
C17_Witness ==
    /\ Live
    /\ hist.accruals[<<PathA, << >>>>] = 2
    /\ TimeOf(record, PathA, << >>) > TimeOf(hist.loaded, PathA, << >>) + 1

\* the sum of the title rows of the table from row i to the end of its block
RECURSIVE BlockSum(_)
BlockSum(i) ==
    IF i > Len(table) THEN 0
    ELSE IF table[i].kind # "title" THEN 0
    ELSE table[i].time + BlockSum(i + 1)

\* C18: while the time axis is active the header rows are ordered by their
\* totals and the title rows of each block by their times, both descending
\* when sort_by_time_up is True and ascending when it is False, and each
\* header shows the sum of the title rows beneath it.
C18_TimeSort ==
    (appState = "running" /\ sort_by_time_up # None) =>
        /\ \A i, j \in 1..Len(table) :
              (i < j /\ table[i].kind = "app" /\ table[j].kind = "app") =>
                  ~TimePrec(sort_by_time_up, table[j].time, table[i].time)
        /\ \A i \in 1..(Len(table) - 1) :
              (table[i].kind = "title" /\ table[i + 1].kind = "title") =>
                  ~TimePrec(sort_by_time_up, table[i + 1].time, table[i].time)
        /\ \A i \in 1..Len(table) :
              table[i].kind = "app" => table[i].time = BlockSum(i + 1)

\* C18, its case: the time axis is active, two blocks have different totals
\* and one block has two titles with different times.
C18_Witness ==
    /\ appState = "running" /\ sort_by_time_up # None
    /\ \E i, j \in 1..Len(table) :
          table[i].kind = "app" /\ table[j].kind = "app" /\ table[i].time # table[j].time
    /\ \E i \in 1..(Len(table) - 1) :
          /\ table[i].kind = "title" /\ table[i + 1].kind = "title"
          /\ table[i].time # table[i + 1].time

\* C19: the keys of the header rows and title rows of the table are
\* pairwise distinct.
C19_RowKeysDistinct ==
    \A i, j \in 1..Len(table) :
        (i # j /\ table[i].kind # "blank" /\ table[j].kind # "blank") =>
            table[i].key # table[j].key

\* C20: exactly one of sort_by_process_up and sort_by_time_up is None and
\* the other is True or False.
C20_OneAxisActive ==
    /\ sort_by_process_up \in {True, False, None}
    /\ sort_by_time_up \in {True, False, None}
    /\ (sort_by_process_up = None) # (sort_by_time_up = None)

\* C20, its case: each key was pressed and the second press of the time
\* key left the time axis active, ascending.
C20_Witness ==
    /\ hist.key = "t" /\ hist.streak = 2
    /\ sort_by_process_up = None /\ sort_by_time_up = False
====
